---- MODULE Spec2Model ----
(***************************************************************************)
(* Model of upsampling/utils/upsampler.py (class Upsampler).               *)
(*                                                                         *)
(* The neural estimators, the warp operator and the pixel tensors are      *)
(* opaque: a frame is represented by its provenance (which source frame    *)
(* it is, or which intermediate index of which pair it was synthesized     *)
(* for).  The quantities the scheduler computes itself are modelled by     *)
(* value: the frame count N = ceil(max flow magnitude), the fractional     *)
(* time t = i/N, the timestamp time0 + t*(time1-time0), the blend          *)
(* denominator (1-t)*V_t_0 + t*V_t_1, the argsort of the pair's            *)
(* timestamps, the running index idx, the timestamp log and the            *)
(* (width, height)-keyed cache of backWarp modules.  Arithmetic is exact   *)
(* rational arithmetic (fractions <<numerator, denominator>> in lowest     *)
(* terms); IEEE rounding of Python floats is not modelled.                 *)
(***************************************************************************)
EXTENDS Integers, Sequences, FiniteSets, TLC

(* ---------------------------- bounds ----------------------------------- *)
\* pairs yielded by one sequence
MaxPairs == 2
\* sequences found by os.walk
MaxSeqs == 2
\* the maximum flow magnitude of a pair ranges over 0, 1/2, 1, ... MaxMag
MaxMag == 3
\* t1 - t0 ranges over 1..MaxDt (over 0..MaxDt where ties are allowed)
MaxDt == 1

VARIABLES
    inputDir,           \* what input_dir is on disk: "absent", "file" or "dir"
    outputDir,          \* what output_dir is on disk
    outputDir0,         \* what output_dir was before the constructor ran
    outTree,            \* TRUE once _prepare_output_dir has copied the tree
    ckptLoaded,         \* TRUE once _load_net_from_checkpoint has run
    phase,              \* "new", "failed", "ready" (constructed), "sequence"
    flowBackWarp_dict,  \* set of <<key, module>> entries
    modules,            \* sequence of <<width, height>>: one per backWarp built
    returned,           \* set of <<width, height, module>>: results of get calls
    sequence_counter,   \* upsample: sequences processed so far
    shape,              \* <<height, width>> of the current sequence's images
    srcTime,            \* timestamp of the next pair's I0
    pairs,              \* pairs processed in the current sequence
    idx,                \* upsample_sequence: next frame index
    timestamps_list,    \* upsample_sequence: accumulated timestamp log
    writes,             \* _write_img calls of the current sequence, in order
    tsWrites,           \* _write_timestamps calls of the current sequence
    tsFile,             \* content of the current sequence's timestamps.txt
    last                \* the most recently processed pair, as emitted

vars == <<inputDir, outputDir, outputDir0, outTree, ckptLoaded, phase,
          flowBackWarp_dict, modules, returned,
          sequence_counter, shape, srcTime, pairs, idx, timestamps_list,
          writes, tsWrites, tsFile, last>>

(* ------------------------- exact fractions ----------------------------- *)
RECURSIVE GCD(_, _)
GCD(a, b) == IF b = 0 THEN a ELSE GCD(b, a % b)

\* the result of a division by zero (Python raises ZeroDivisionError)
DivError == <<0, 0>>

Rat(n, d) == IF d = 0 THEN DivError
             ELSE LET g == GCD(n, d) IN <<n \div g, d \div g>>

RInt(k) == <<k, 1>>
RAdd(a, b) == Rat(a[1] * b[2] + b[1] * a[2], a[2] * b[2])
RSub(a, b) == Rat(a[1] * b[2] - b[1] * a[2], a[2] * b[2])
RMul(a, b) == Rat(a[1] * b[1], a[2] * b[2])
RLess(a, b) == a[1] * b[2] < b[1] * a[2]
RLeq(a, b) == a[1] * b[2] <= b[1] * a[2]

(* ------------------------------ frames --------------------------------- *)
FsKinds == {"absent", "file", "dir"}
\* <<height, width>> of a sequence's images
Shapes == {<<1, 2>>, <<2, 1>>}
\* the maximum flow magnitudes a pair can have
Mags == {<<n, 2>> : n \in 0..(2 * MaxMag)}
\* the visibility weights V_t_0 = sigmoid(...) the refinement network returns
Visibilities == {<<0, 1>>, <<1, 2>>, <<1, 1>>}
None == 0

\* source frame k of the sequence (0-based)
SrcFrame(k) == [kind |-> "src", src |-> k, i |-> 0]
\* frame synthesized for intermediate index i of the pair starting at frame k
InterpFrame(k, i) == [kind |-> "interp", src |-> k, i |-> i]

NoPair == [I0 |-> SrcFrame(0), I1 |-> SrcFrame(0), t0 |-> 0, t1 |-> 0, mag |-> <<0, 1>>, N |-> 0,
           frames |-> <<>>, timestamps |-> <<>>, sorted_indices |-> <<>>,
           blends |-> <<>>]

Init ==
    /\ inputDir \in FsKinds
    /\ outputDir \in FsKinds
    /\ outputDir0 = outputDir
    /\ outTree = FALSE
    /\ ckptLoaded = FALSE
    /\ phase = "new"
    /\ flowBackWarp_dict = {}
    /\ modules = <<>>
    /\ returned = {}
    /\ sequence_counter = 0
    /\ shape = <<1, 1>>
    /\ srcTime = 0
    /\ pairs = <<>>
    /\ idx = 0
    /\ timestamps_list = <<>>
    /\ writes = <<>>
    /\ tsWrites = 0
    /\ tsFile = <<>>
    /\ last = NoPair

(* --------------------------- __init__ ---------------------------------- *)
\* the constructor with the second assertion missing
Preconditions_InputOnly(inDir, outDir) == inDir = "dir"

\* the two assertions of the constructor
Preconditions(inDir, outDir) == inDir = "dir" /\ outDir = "absent"

UpsamplerInit ==
    /\ phase = "new"
    /\ IF Preconditions(inputDir, outputDir)
       THEN /\ outTree' = TRUE
            /\ outputDir' = "dir"
            /\ ckptLoaded' = TRUE
            /\ flowBackWarp_dict' = {}
            /\ phase' = "ready"
       ELSE /\ phase' = "failed"
            /\ UNCHANGED <<outTree, outputDir, ckptLoaded, flowBackWarp_dict>>
    /\ UNCHANGED <<inputDir, outputDir0, modules, returned,
                   sequence_counter, shape, srcTime, pairs, idx,
                   timestamps_list, writes, tsWrites, tsFile, last>>

(* ------------------- get_flowBackWarp_module --------------------------- *)
\* a key that does not tell apart sizes of equal area
CacheKey_Area(width, height) == <<width * height, 0>>

\* the dictionary key built from the two arguments
CacheKey(width, height) == <<width, height>>

\* dict.get(key): the stored module, or None
DictGet(d, key) ==
    IF \E e \in d : e[1] = key THEN (CHOOSE e \in d : e[1] = key)[2] ELSE None

\* d[key] = module
DictSet(d, key, module) == {e \in d : e[1] # key} \cup {<<key, module>>}

\* One call of get_flowBackWarp_module on the cache state
\* c = [dict, modules, returned]; the result carries the returned module.
\* A module is identified by its position in the sequence of constructions.
GetFlowBackWarpModule(c, width, height) ==
    LET found == DictGet(c.dict, CacheKey(width, height))
        fresh == Len(c.modules) + 1
    IN  IF found = None
        THEN [dict |-> DictSet(c.dict, CacheKey(width, height), fresh),
              modules |-> Append(c.modules, <<width, height>>),
              returned |-> c.returned \cup {<<width, height, fresh>>},
              module |-> fresh]
        ELSE [dict |-> c.dict,
              modules |-> c.modules,
              returned |-> c.returned \cup {<<width, height, found>>},
              module |-> found]

CacheState == [dict |-> flowBackWarp_dict, modules |-> modules,
               returned |-> returned]

(* ----------------------- _upsample_adaptive ---------------------------- *)
\* torch.ceil(flow_mag_max).int() for the magnitude mag = <<n, d>>
FlowMagMax(mag) == (mag[1] + mag[2] - 1) \div mag[2]

\* range(1, N + 1): the loop runs one index too far
InterpRange_OffByOne(N) == [start |-> 1, stop |-> N + 1]

\* range(0, N): the loop starts at index 0
InterpRange_FromZero(N) == [start |-> 0, stop |-> N]

\* range(1, flow_mag_max[i].item())
InterpRange(N) == [start |-> 1, stop |-> N]

\* t = i / (N + 1)
FracT_PlusOne(intermediateIndex, N) == Rat(intermediateIndex, N + 1)

\* t = float(intermediateIndex) / flow_mag_max[i].item()
FracT(intermediateIndex, N) == Rat(intermediateIndex, N)

\* wCoeff = [1 - t, t]
WCoeff(t) == <<RSub(RInt(1), t), t>>

\* the divisor of the final blend: wCoeff[0] * V_t_0 + wCoeff[1] * V_t_1
BlendDenominator(t, V_t_0) ==
    LET V_t_1 == RSub(RInt(1), V_t_0)
    IN  RAdd(RMul(WCoeff(t)[1], V_t_0), RMul(WCoeff(t)[2], V_t_1))

\* time0 + t * time1
Timestamp_NoDiff(time0, time1, t) ==
    RAdd(RInt(time0), RMul(t, RInt(time1)))

\* time0 + t * (time1 - time0)
Timestamp(time0, time1, t) ==
    RAdd(RInt(time0), RMul(t, RSub(RInt(time1), RInt(time0))))

\* the cache after n further calls of get_flowBackWarp_module(width, height)
RECURSIVE CacheAfter(_, _, _, _)
CacheAfter(cache, n, width, height) ==
    IF n = 0
    THEN cache
    ELSE LET c == GetFlowBackWarpModule(
                      CacheAfter(cache, n - 1, width, height), width, height)
         IN  [dict |-> c.dict, modules |-> c.modules, returned |-> c.returned]

\* The loops of _upsample_adaptive.  The batch has the single sample i = 0
\* (I0 is unsqueezed to batch size 1), so the outer loop runs once and the
\* inner loop runs over InterpRange(N).  p = [k, time0, time1, N, V, height,
\* width] are the pair's inputs, V being the visibility weight the
\* refinement network returns; the result is the two lists after the
\* appends, the blend computed at each index and the cache after the calls.
UpsampleAdaptive(p, total_frames, timestamps, cache) ==
    LET range == InterpRange(p.N)
        count == IF range.stop > range.start
                 THEN range.stop - range.start ELSE 0
        intermediateIndex(j) == range.start + (j - 1)
    IN  [frames |-> total_frames \o
            [j \in 1..count |-> InterpFrame(p.k, intermediateIndex(j))],
         timestamps |-> timestamps \o
            [j \in 1..count |->
                Timestamp(p.time0, p.time1,
                          FracT(intermediateIndex(j), p.N))],
         blends |->
            [j \in 1..count |->
                [t |-> FracT(intermediateIndex(j), p.N),
                 V_t_0 |-> p.V,
                 den |-> BlendDenominator(FracT(intermediateIndex(j), p.N),
                                          p.V)]],
         cache |-> CacheAfter(cache, count, p.width, p.height)]

(* ------------------------ upsample_sequence ---------------------------- *)
\* the pair's second frame appended instead of its first
BoundaryFrame_I1(I0, I1) == I1

\* the frame appended before the adaptive loop: TP(I0[0])
BoundaryFrame(I0, I1) == I0

\* np.argsort(timestamps) with the default kind ("quicksort"), which is not
\* stable: every permutation that puts the timestamps in non-decreasing
\* order is a possible result.
RECURSIVE SortsOf(_, _)
SortsOf(ts, remaining) ==
    IF remaining = {}
    THEN {<<>>}
    ELSE UNION {{<<j>> \o rest : rest \in SortsOf(ts, remaining \ {j})} :
                j \in {k \in remaining :
                         \A l \in remaining : RLeq(ts[k], ts[l])}}

ArgSorts(ts) == SortsOf(ts, 1..Len(ts))

\* [xs[j] for j in sorted_indices]
Reorder(xs, sorted_indices) ==
    [j \in 1..Len(sorted_indices) |-> xs[sorted_indices[j]]]

\* timestamps_list = timestamps
Accumulate_Overwrite(list, timestamps) == timestamps

\* timestamps_list += timestamps
Accumulate(list, timestamps) == list \o timestamps

\* idx incremented before the write
WriteIdx_Pre(i0, j) == i0 + j

\* the index passed to _write_img for the j-th frame (j = 1, 2, ...) of a
\* pair that starts at index i0: idx is incremented after each write
WriteIdx(i0, j) == i0 + (j - 1)

\* lines 80-91: upsample finds the next sequence and upsample_sequence
\* starts on it with an empty log and idx = 0
StartSequence ==
    /\ phase = "ready"
    /\ sequence_counter < MaxSeqs
    /\ sequence_counter' = sequence_counter + 1
    /\ phase' = "sequence"
    /\ shape' \in Shapes
    /\ srcTime' = 0
    /\ pairs' = <<>>
    /\ idx' = 0
    /\ timestamps_list' = <<>>
    /\ writes' = <<>>
    /\ tsWrites' = 0
    /\ tsFile' = <<>>
    /\ last' = NoPair
    /\ UNCHANGED <<inputDir, outputDir, outputDir0, outTree, ckptLoaded,
                   flowBackWarp_dict, modules, returned>>

\* the pair the sequence yields next: consecutive source frames k, k+1 with
\* their timestamps, the second frame of a pair being the first of the next
NextPair(k, time, dt) == [I0 |-> SrcFrame(k), I1 |-> SrcFrame(k + 1),
                          t0 |-> time, t1 |-> time + dt]

\* lines 92-120: one iteration of the loop over the sequence's pairs
\* (a value used more than once is bound by \E over a singleton set, so
\* that it is computed once)
ProcessPairOn(DtSet) ==
    /\ phase = "sequence"
    /\ Len(pairs) < MaxPairs
    /\ \E dt \in DtSet, mag \in Mags, V \in Visibilities :
       \E pair \in {NextPair(Len(pairs), srcTime, dt)} :
       \E N \in {FlowMagMax(mag)} :
       \E r \in {UpsampleAdaptive(
                    [k |-> Len(pairs), time0 |-> pair.t0, time1 |-> pair.t1,
                     N |-> N, V |-> V,
                     height |-> shape[1], width |-> shape[2]],
                    <<BoundaryFrame(pair.I0, pair.I1)>>,
                    <<RInt(pair.t0)>>, CacheState)} :
       \E sorted_indices \in ArgSorts(r.timestamps) :
       \E total_frames \in {Reorder(r.frames, sorted_indices)} :
       \E timestamps \in {Reorder(r.timestamps, sorted_indices)} :
          /\ timestamps_list' = Accumulate(timestamps_list, timestamps)
          /\ writes' = writes \o
                 [j \in 1..Len(total_frames) |->
                     [idx |-> WriteIdx(idx, j), frame |-> total_frames[j]]]
          /\ idx' = WriteIdx(idx, Len(total_frames) + 1)
          /\ flowBackWarp_dict' = r.cache.dict
          /\ modules' = r.cache.modules
          /\ returned' = r.cache.returned
          /\ pairs' = Append(pairs, [t0 |-> pair.t0, t1 |-> pair.t1,
                                     N |-> N])
          /\ srcTime' = pair.t1
          /\ last' = [I0 |-> pair.I0, I1 |-> pair.I1,
                      t0 |-> pair.t0, t1 |-> pair.t1,
                      mag |-> mag, N |-> N,
                      frames |-> total_frames,
                      timestamps |-> timestamps,
                      sorted_indices |-> sorted_indices,
                      blends |-> r.blends]
    /\ UNCHANGED <<inputDir, outputDir, outputDir0, outTree, ckptLoaded,
                   phase, sequence_counter, shape, tsWrites, tsFile>>

\* pairs with t0 < t1, as the sequences yield them
ProcessPair == ProcessPairOn(1..MaxDt)

\* line 121: the sequence is exhausted and the log is written
FinishSequence ==
    /\ phase = "sequence"
    /\ tsFile' = timestamps_list
    /\ tsWrites' = tsWrites + 1
    /\ phase' = "ready"
    /\ UNCHANGED <<inputDir, outputDir, outputDir0, outTree, ckptLoaded,
                   flowBackWarp_dict, modules, returned,
                   sequence_counter, shape, srcTime, pairs, idx,
                   timestamps_list, writes, last>>

Next ==
    \/ UpsamplerInit
    \/ StartSequence
    \/ ProcessPair
    \/ FinishSequence

Spec == Init /\ [][Next]_vars

\* pairs whose two timestamps may be equal
ProcessPairTies == ProcessPairOn(0..MaxDt)

NextTies ==
    \/ UpsamplerInit
    \/ StartSequence
    \/ ProcessPairTies
    \/ FinishSequence

SpecTies == Init /\ [][NextTies]_vars

(* ===================== properties of the program ======================= *)
\* at least one pair of the current sequence has been processed
HasPair == Len(pairs) > 0

\* the current sequence has been processed to its end
Done == phase = "ready" /\ tsWrites = 1

Max0(x) == IF x > 0 THEN x ELSE 0

\* the least integer not below the fraction m
Ceil(m) == CHOOSE c \in 0..(m[1] + 1) :
               c * m[2] >= m[1] /\ (c - 1) * m[2] < m[1]

\* the positions of the last pair's emitted frames of one kind
LastOfKind(kind) == {j \in DOMAIN last.frames : last.frames[j].kind = kind}

\* the number of intermediate frames of the first n processed pairs
RECURSIVE SumInter(_)
SumInter(n) == IF n = 0 THEN 0
               ELSE SumInter(n - 1) + Max0(pairs[n].N - 1)

\* ts is the fraction t0 + (i/N) * (t1 - t0)
IsInterpTime(ts, t0, t1, i, N) ==
    ts[2] > 0 /\ ts[1] * N = ts[2] * (t0 * N + i * (t1 - t0))

\* ts is the timestamp the frame of the current sequence should carry
IsTimeOf(ts, frame) ==
    LET pair == pairs[frame.src + 1]
    IN  IF frame.kind = "src"
        THEN ts = <<pair.t0, 1>>
        ELSE IsInterpTime(ts, pair.t0, pair.t1, frame.i, pair.N)

\* C1 (count law): a processed pair whose maximum flow magnitude is m emits
\* exactly max(ceil(m) - 1, 0) synthesized intermediate frames and exactly one
\* boundary frame, its I0; so every pair emits at least one frame and a pair
\* with m < 1 emits the boundary frame only.
C1_CountLaw ==
    HasPair =>
        /\ Cardinality(LastOfKind("interp")) = Max0(Ceil(last.mag) - 1)
        /\ Cardinality(LastOfKind("src")) = 1
        /\ \A j \in LastOfKind("src") : last.frames[j] = last.I0
        /\ Len(last.frames) = 1 + Max0(Ceil(last.mag) - 1)
        /\ (RLess(last.mag, <<1, 1>>) => last.frames = <<last.I0>>)

\* a pair with magnitude 5/2 has emitted three frames
C1_Witness ==
    HasPair /\ last.mag = <<5, 2>> /\ Len(last.frames) = 3

\* C2 (timestamp ordering): for a processed pair with t0 < t1 every emitted
\* timestamp lies in [t0, t1) and the timestamps, as emitted after the sort,
\* are strictly increasing.
C2_TimestampOrdering ==
    (HasPair /\ last.t0 < last.t1) =>
        /\ \A j \in DOMAIN last.timestamps :
              /\ last.timestamps[j][2] > 0
              /\ RLeq(<<last.t0, 1>>, last.timestamps[j])
              /\ RLess(last.timestamps[j], <<last.t1, 1>>)
        /\ \A j \in 1..(Len(last.timestamps) - 1) :
              RLess(last.timestamps[j], last.timestamps[j + 1])

\* a pair starting at t0 > 0 has emitted a boundary and two intermediates
C2_Witness ==
    HasPair /\ 0 < last.t0 /\ last.t0 < last.t1 /\ Len(last.timestamps) = 3

\* C7 (timestamp values): for a processed pair with N = ceil(m) >= 2 the
\* intermediate frame of every index i in 1..N-1 is emitted with timestamp
\* t0 + (i/N)*(t1 - t0) and the boundary frame with timestamp t0; a pair of
\* magnitude exactly 3 emits exactly three frames, at t0, t0 + (t1-t0)/3 and
\* t0 + 2(t1-t0)/3.
C7_TimestampValues ==
    (HasPair /\ Ceil(last.mag) >= 2) =>
        /\ \A i \in 1..(Ceil(last.mag) - 1) :
              \E j \in DOMAIN last.frames :
                 /\ last.frames[j] = InterpFrame(Len(pairs) - 1, i)
                 /\ IsInterpTime(last.timestamps[j], last.t0, last.t1,
                                 i, Ceil(last.mag))
        /\ \E j \in DOMAIN last.frames :
              last.frames[j] = last.I0 /\ last.timestamps[j] = <<last.t0, 1>>
        /\ (last.mag = <<6, 2>> /\ last.t0 < last.t1) =>
              /\ Len(last.frames) = 3
              /\ last.timestamps[1] = <<last.t0, 1>>
              /\ IsInterpTime(last.timestamps[2], last.t0, last.t1, 1, 3)
              /\ IsInterpTime(last.timestamps[3], last.t0, last.t1, 2, 3)

\* a pair of magnitude exactly 3 starting at t0 > 0 has been processed
C7_Witness ==
    HasPair /\ last.mag = <<6, 2>> /\ last.t0 > 0 /\ last.t0 < last.t1

\* C10 (blend denominator): at every intermediate index of a processed pair
\* the fractional time t lies strictly inside (0, 1) and, whatever visibility
\* weight V_t_0 in [0, 1] the network returned, the blend denominator
\* (1-t)*V_t_0 + t*(1-V_t_0) is strictly positive, at least min(t, 1-t),
\* which is at least 1/N; a pair with N = 0 divides by nothing.
C10_BlendDenominator ==
    HasPair =>
        /\ \A j \in DOMAIN last.blends :
              LET t == last.blends[j].t
                  den == last.blends[j].den
              IN  /\ t[2] > 0 /\ 0 < t[1] /\ t[1] < t[2]
                  /\ den[2] > 0 /\ den[1] > 0
                  /\ \/ RLeq(t, den)
                     \/ RLeq(<<t[2] - t[1], t[2]>>, den)
                  /\ last.N * t[1] >= t[2]
                  /\ last.N * (t[2] - t[1]) >= t[2]
        /\ (last.N = 0 => last.blends = <<>>)
        /\ \A j \in DOMAIN last.timestamps : last.timestamps[j] # DivError

\* a pair with N = 3 has been blended with visibility weight 0
C10_Witness ==
    /\ HasPair /\ last.N = 3 /\ Len(last.blends) = 2
    /\ last.blends[1].V_t_0 = <<0, 1>>

\* C3 as stated (global frame count): when a sequence of P >= 1 pairs has
\* been processed, the number of written frames is the boundary frame of the
\* first pair plus the intermediate frames of all pairs, and the indices
\* written are 0, 1, 2, ... without gap or repeat.
C3_Original ==
    (Done /\ HasPair) =>
        /\ Len(writes) = 1 + SumInter(Len(pairs))
        /\ \A j \in DOMAIN writes : writes[j].idx = j - 1

\* C3 as amended (global frame count): when a sequence of P pairs has been
\* processed, the number of written frames is P, one boundary frame for each
\* pair, plus the intermediate frames of all pairs, and the indices written
\* are 0, 1, 2, ... without gap or repeat.
C3_GlobalCount ==
    Done =>
        /\ Len(writes) = Len(pairs) + SumInter(Len(pairs))
        /\ \A j \in DOMAIN writes : writes[j].idx = j - 1

\* a sequence of two pairs with intermediate frames has been completed
C3_Witness ==
    Done /\ Len(pairs) = 2 /\ SumInter(2) >= 2 /\ Len(writes) >= 4

\* C4 (no boundary frame emitted twice): the pairs being chained, a pair
\* never emits its terminal frame I1; each source frame that starts a
\* processed pair has been written exactly once, within that pair's frames,
\* and the terminal source frame of the last processed pair, hence the
\* sequence's final frame, has not been written.
C4_NoDoubleEmit ==
    /\ HasPair => \A j \in DOMAIN last.frames : last.frames[j] # last.I1
    /\ sequence_counter > 0 =>
          /\ \A k \in 0..(Len(pairs) - 1) :
                /\ Cardinality({j \in DOMAIN writes :
                                  writes[j].frame = SrcFrame(k)}) = 1
                /\ \A j \in DOMAIN writes :
                      writes[j].frame = SrcFrame(k) =>
                         /\ j > k + SumInter(k)
                         /\ j <= k + 1 + SumInter(k + 1)
          /\ \A j \in DOMAIN writes :
                writes[j].frame.kind = "src" =>
                   writes[j].frame.src < Len(pairs)

\* a sequence of two chained pairs has been completed
C4_Witness ==
    Done /\ Len(pairs) = 2 /\ last.I0 = SrcFrame(1) /\ last.N >= 2

\* C5 (index/timestamp lockstep): within a sequence, after each pair the
\* number of frames written, the length of the timestamp log and the next
\* index are equal; the k-th log entry is the timestamp of the frame written
\* under index k; index and log are not reset between pairs and start at
\* 0/empty in every sequence; the log is written once, after the last pair.
C5_LockStep ==
    sequence_counter > 0 =>
        /\ Len(writes) = Len(timestamps_list)
        /\ Len(writes) = idx
        /\ idx = Len(pairs) + SumInter(Len(pairs))
        /\ \A j \in DOMAIN writes :
              /\ writes[j].idx = j - 1
              /\ IsTimeOf(timestamps_list[j], writes[j].frame)
        /\ (phase = "sequence" => tsWrites = 0 /\ tsFile = <<>>)
        /\ (phase = "ready" => tsWrites = 1 /\ tsFile = timestamps_list)

\* the second sequence has been completed with two pairs and four frames
C5_Witness ==
    Done /\ sequence_counter = 2 /\ Len(pairs) = 2 /\ idx >= 4
         /\ pairs[1].N >= 2

\* C6 (cache idempotence): of all calls of get_flowBackWarp_module so far,
\* two with the same (width, height) returned the same module and two with
\* different (width, height), transposed ones included, returned different
\* modules; a module was constructed at most once for each (width, height),
\* and every call returned the module constructed for its own arguments.
C6_CacheIdempotence ==
    /\ \A a, b \in returned :
          (a[1] = b[1] /\ a[2] = b[2]) <=> (a[3] = b[3])
    /\ \A m, n \in DOMAIN modules : modules[m] = modules[n] => m = n
    /\ \A a \in returned :
          a[3] \in DOMAIN modules /\ modules[a[3]] = <<a[1], a[2]>>
    /\ \A e \in flowBackWarp_dict :
          e[2] \in DOMAIN modules /\ modules[e[2]] = e[1]

\* two sequences of transposed image sizes have each called the cache
C6_Witness ==
    /\ sequence_counter = 2
    /\ \E a, b \in returned : a[1] = b[2] /\ a[2] = b[1] /\ a[1] # a[2]
    /\ HasPair /\ last.N >= 3

\* C8 (fatal startup preconditions): when the input directory does not exist
\* or the output path exists, construction fails leaving the output path as
\* it was, the output tree not created, the checkpoint not loaded and no
\* sequence processed; the output tree is prepared only when both hold.
C8_StartupFatal ==
    /\ ~(inputDir = "dir" /\ outputDir0 = "absent") =>
          /\ phase \in {"new", "failed"}
          /\ outputDir = outputDir0
          /\ ~outTree
          /\ ~ckptLoaded
          /\ sequence_counter = 0
          /\ writes = <<>> /\ tsWrites = 0
    /\ outTree => (inputDir = "dir" /\ outputDir0 = "absent")
    /\ phase = "failed" => ~(inputDir = "dir" /\ outputDir0 = "absent")

\* construction has failed on an existing output directory
C8_Witness ==
    phase = "failed" /\ inputDir = "dir" /\ outputDir0 = "dir"

\* C9 (stable assembly sort): in every processed pair, frames with equal
\* timestamps are emitted in the order they were appended, and the boundary
\* frame is emitted before every intermediate frame, also when timestamps
\* tie (t0 = t1 with N >= 2).
C9_StableSort ==
    HasPair =>
        /\ last.frames[1] = last.I0
        /\ \A a, b \in DOMAIN last.sorted_indices :
              (a < b /\ last.timestamps[a] = last.timestamps[b]) =>
                 last.sorted_indices[a] < last.sorted_indices[b]
====
